---- MODULE Spec2Model ----
(***************************************************************************)
(* A model of the CSV transformation service: the TransformationRegistry   *)
(* (src/common/registry.py), the DataTransformationPipeline                *)
(* (src/pipeline.py) and the flask_restful resources (src/resources/).     *)
(*                                                                         *)
(* Two specifications:                                                     *)
(*   Spec     a client holding one TransformationRegistry and one          *)
(*            DataTransformationPipeline bound to it calls their methods   *)
(*            in any order;                                                *)
(*   AppSpec  the application of src/app.py answers HTTP requests.         *)
(***************************************************************************)
EXTENDS Integers, Sequences, FiniteSets, TLC

VARIABLES
    registry,                 \* the client's TransformationRegistry
    call,                     \* the last method call: its name and arguments
    pre,                      \* registry as it was when the last call began
    ret,                      \* what the last registry call returned or raised
    run,                      \* the last process call: inputs, heap, outcome
    last_registered,          \* history: name -> func of its latest register
    registration_order,       \* history: names in order of first register
    toggled,                  \* history: registry before a preceding enable(name, False)
    listed,                   \* history: the list last returned, while still current
    earlier,                  \* history: the last process call on a replayed input
    transformations_registry, \* `registry` of src/resources/transformations.py
    transform_registry,       \* `registry` of src/resources/transform.py
    request,                  \* the last HTTP request
    response,                 \* the answer to it
    before,                   \* transformations_registry when the last request began
    switched_off,             \* history: names whose last toggle request disabled them
    shared,                   \* a TransformationRegistry used by several threads
    threads,                  \* each thread's call in progress and how far it got
    ever_disabled,            \* history: names some call was given enabled=False for
    applied                   \* a transformation function applied on its own

lib_vars == <<registry, call, pre, ret, run, last_registered, registration_order, toggled,
              listed, earlier>>
app_vars == <<transformations_registry, transform_registry, request, response, before,
              switched_off>>
thread_vars == <<shared, threads, ever_disabled>>
func_vars == <<applied>>
vars == <<registry, call, pre, ret, run, last_registered, registration_order, toggled, listed,
          earlier, transformations_registry, transform_registry, request, response, before,
          switched_off, shared, threads, ever_disabled, applied>>

(***************************************************************************)
(* Bounds of the model.                                                    *)
(***************************************************************************)
MaxSteps == 2

NumThreads == 2

(***************************************************************************)
(* Python dict: insertion-ordered; assigning an existing key keeps its     *)
(* position, assigning a new key appends it.                               *)
(***************************************************************************)
EmptyDict == <<>>

DictHas(d, key) == \E i \in 1..Len(d) : d[i].k = key

DictGet(d, key, default) ==
    IF DictHas(d, key) THEN d[CHOOSE i \in 1..Len(d) : d[i].k = key].v ELSE default

DictSet(d, key, value) ==
    IF DictHas(d, key)
    THEN [i \in 1..Len(d) |-> IF d[i].k = key THEN [k |-> key, v |-> value] ELSE d[i]]
    ELSE Append(d, [k |-> key, v |-> value])

DictKeys(d) == [i \in 1..Len(d) |-> d[i].k]

(***************************************************************************)
(* Exceptions. In the source every failure of the registry is a ValueError *)
(* told apart by its message.                                              *)
(***************************************************************************)
NoError == [type |-> "", msg |-> "", arg |-> ""]

Raise(type, msg, arg) == [type |-> type, msg |-> msg, arg |-> arg]

(***************************************************************************)
(* TransformationRegistry                                                  *)
(***************************************************************************)
NoFunc == ""

EmptyRegistry == [transformations |-> EmptyDict, enabled |-> EmptyDict]

\* variant of register: an existing flag is kept (setdefault)
RegisterKeepFlag(reg, name, func, enabled) ==
    [transformations |-> DictSet(reg.transformations, name, func),
     enabled         |-> IF DictHas(reg.enabled, name) THEN reg.enabled
                         ELSE DictSet(reg.enabled, name, enabled)]

Register(reg, name, func, enabled) ==
    [transformations |-> DictSet(reg.transformations, name, func),
     enabled         |-> DictSet(reg.enabled, name, enabled)]

\* register(name, func) with the keyword argument left out: enabled = True
RegisterDefault(reg, name, func) == Register(reg, name, func, TRUE)

\* variant of enable: no test that name is registered
EnableUnguarded(reg, name, enabled) ==
    [reg EXCEPT !.enabled = DictSet(reg.enabled, name, enabled)]

\* variant of enable: disabling a name deletes its entry
EnableOrUnregister(reg, name, enabled) ==
    IF ~DictHas(reg.transformations, name) THEN reg
    ELSE IF enabled THEN [reg EXCEPT !.enabled = DictSet(reg.enabled, name, enabled)]
    ELSE [transformations |-> SelectSeq(reg.transformations, LAMBDA e : e.k # name),
          enabled         |-> SelectSeq(reg.enabled, LAMBDA e : e.k # name)]

\* variant of enable: the flag is deleted and inserted again
EnableReinsert(reg, name, enabled) ==
    IF DictHas(reg.transformations, name)
    THEN [reg EXCEPT !.enabled = Append(SelectSeq(reg.enabled, LAMBDA e : e.k # name),
                                        [k |-> name, v |-> enabled])]
    ELSE reg

Enable(reg, name, enabled) ==
    IF DictHas(reg.transformations, name)
    THEN [reg EXCEPT !.enabled = DictSet(reg.enabled, name, enabled)]
    ELSE reg

\* variant of get_transformation: no test of the enabled flag
GetTransformationUngated(reg, name) ==
    IF ~DictHas(reg.transformations, name)
    THEN [ok |-> FALSE, func |-> NoFunc, error |-> Raise("ValueError", "not found", name)]
    ELSE [ok |-> TRUE, func |-> DictGet(reg.transformations, name, NoFunc), error |-> NoError]

GetTransformation(reg, name) ==
    IF ~DictHas(reg.transformations, name)
    THEN [ok |-> FALSE, func |-> NoFunc, error |-> Raise("ValueError", "not found", name)]
    ELSE IF ~DictGet(reg.enabled, name, FALSE)
    THEN [ok |-> FALSE, func |-> NoFunc, error |-> Raise("ValueError", "is disabled", name)]
    ELSE [ok |-> TRUE, func |-> DictGet(reg.transformations, name, NoFunc), error |-> NoError]

\* variant of get_available_transformations: every registered name
GetAvailableTransformationsAll(reg) == DictKeys(reg.transformations)

GetAvailableTransformations(reg) ==
    DictKeys(SelectSeq(reg.enabled, LAMBDA e : e.v))

RegisterDefaultTransformations(reg) ==
    RegisterDefault(
        RegisterDefault(
            RegisterDefault(reg, "filter_rows", "_filter_rows"),
            "map_column", "_map_column"),
        "uppercase_column", "_uppercase_column")

NewRegistry == RegisterDefaultTransformations(EmptyRegistry)

(***************************************************************************)
(* Cell values of a DataFrame and of a step's config: text, integer, or    *)
(* the missing value (NaN). One record shape for all three.                *)
(***************************************************************************)
Text(s) == [k |-> "str", n |-> 0, s |-> s]

Num(n) == [k |-> "int", n |-> n, s |-> ""]

Null == [k |-> "null", n |-> 0, s |-> ""]

\* str(n) for the integers of the model
IntText(n) ==
    CASE n = 25 -> "25"
      [] n = 30 -> "30"
      [] n = 45 -> "45"
      [] OTHER  -> "0"

\* astype(str) on one cell, str(value) on a config value: NaN becomes the text "nan"
ToText(v) ==
    CASE v.k = "str"  -> v.s
      [] v.k = "int"  -> IntText(v.n)
      [] OTHER        -> "nan"

\* str.upper() on the texts of the model
Upper(s) ==
    CASE s = "John" -> "JOHN"
      [] s = "Jane" -> "JANE"
      [] s = "john" -> "JOHN"
      [] s = "nan"  -> "NAN"
      [] OTHER      -> s

\* position of a text in the code-point order Python compares strings by
TextRank(s) ==
    CASE s = "("    -> 1
      [] s = "25"   -> 2
      [] s = "30"   -> 3
      [] s = "45"   -> 4
      [] s = "J.hn" -> 5
      [] s = "JANE" -> 6
      [] s = "JOHN" -> 7
      [] s = "Jane" -> 8
      [] s = "John" -> 9
      [] s = "NAN"  -> 10
      [] s = "an"   -> 11
      [] s = "john" -> 12
      [] s = "nan"  -> 13
      [] s = "oh"   -> 14
      [] OTHER      -> 0

\* pat in text, for the texts of the model
Substring(pat, text) ==
    \/ pat = text
    \/ <<pat, text>> \in {<<"oh", "John">>, <<"oh", "john">>, <<"an", "Jane">>,
                          <<"an", "nan">>, <<"2", "25">>, <<"5", "25">>,
                          <<"5", "45">>, <<"4", "45">>, <<"3", "30">>, <<"0", "30">>}

(***************************************************************************)
(* DataFrame: ordered column labels, ordered rows; a row holds one cell    *)
(* per column, by position. DataFrames are objects: the heap is the        *)
(* sequence of all DataFrame objects, a reference is an index into it.     *)
(***************************************************************************)
HasColumn(t, c) == \E i \in 1..Len(t.columns) : t.columns[i] = c

ColumnIndex(t, c) == CHOOSE i \in 1..Len(t.columns) : t.columns[i] = c

Shape(t) == <<Len(t.rows), Len(t.columns)>>

\* a new object holding table t
Alloc(heap, t) == [heap |-> Append(heap, t), ref |-> Len(heap) + 1]

\* df.copy()
Copy(heap, df) == Alloc(heap, heap[df])

Returned(heap, ref) == [ok |-> TRUE, heap |-> heap, ref |-> ref, error |-> NoError]

Raised(heap, error) == [ok |-> FALSE, heap |-> heap, ref |-> 0, error |-> error]

(***************************************************************************)
(* A step's config: a dict with some of the keys column, operator, value,  *)
(* old_name, new_name.                                                     *)
(***************************************************************************)
Config(keys, column, operator, value, old_name, new_name) ==
    [keys |-> keys, column |-> column, operator |-> operator, value |-> value,
     old_name |-> old_name, new_name |-> new_name]

EmptyConfig == Config({}, "", "", Null, "", "")

\* variant of the default: a config without operator filters by !=
OperatorOfDefaultNotEqual(config) ==
    IF "operator" \in config.keys THEN config.operator ELSE "!="

\* config.get('operator', '==')
OperatorOf(config) == IF "operator" \in config.keys THEN config.operator ELSE "=="

\* one cell against the value under a comparison operator; a missing cell
\* compares False under everything but !=
CellMatches(operator, cell, value) ==
    IF cell.k = "null" \/ value.k = "null" THEN operator = "!="
    ELSE IF cell.k # value.k THEN operator = "!="
    ELSE LET a == IF cell.k = "int" THEN cell.n ELSE TextRank(cell.s)
             b == IF value.k = "int" THEN value.n ELSE TextRank(value.s)
         IN CASE operator = "==" -> a = b
              [] operator = "!=" -> a # b
              [] operator = ">"  -> a > b
              [] operator = "<"  -> a < b
              [] operator = ">=" -> a >= b
              [] operator = "<=" -> a <= b

\* an ordering between text and number raises TypeError
Unorderable(operator, cell, value) ==
    /\ operator \in {">", "<", ">=", "<="}
    /\ cell.k # "null"
    /\ value.k # "null"
    /\ cell.k # value.k

\* re.search(pat, text) for the patterns of the model: str.contains takes
\* its argument as a regular expression (regex=True), "." is any character
Search(pat, text) ==
    IF pat = "J.hn" THEN text \in {"John"} ELSE Substring(pat, text)

\* re.compile(pat) raises re.error
BadPattern(pat) == pat = "("

\* df[column].astype(str).str.contains(str(value), na=False) on one cell
CellContains(cell, value) == Search(ToText(value), ToText(cell))

FilterRows(heap, df, config) ==
    IF "column" \notin config.keys THEN Raised(heap, Raise("KeyError", "", "column"))
    ELSE IF "value" \notin config.keys THEN Raised(heap, Raise("KeyError", "", "value"))
    ELSE LET t        == heap[df]
             column   == config.column
             operator == OperatorOf(config)
             value    == config.value
         IN IF operator \notin {"==", "!=", ">", "<", ">=", "<=", "contains"}
            THEN Raised(heap, Raise("ValueError", "Unsupported operator", operator))
            ELSE IF ~HasColumn(t, column)
            THEN Raised(heap, Raise("KeyError", "", column))
            ELSE LET c == ColumnIndex(t, column)
                 IN IF \E r \in 1..Len(t.rows) : Unorderable(operator, t.rows[r][c], value)
                    THEN Raised(heap, Raise("TypeError", "not supported between", operator))
                    ELSE IF operator = "contains" /\ BadPattern(ToText(value))
                    THEN Raised(heap, Raise("re.error", "", ToText(value)))
                    ELSE LET keep(row) == IF operator = "contains"
                                          THEN CellContains(row[c], value)
                                          ELSE CellMatches(operator, row[c], value)
                             new == Alloc(heap, [columns |-> t.columns,
                                                 rows    |-> SelectSeq(t.rows, keep)])
                         IN Returned(new.heap, new.ref)

\* DataFrame.rename(columns={old_name: new_name}): a new object
Rename(heap, df, old_name, new_name) ==
    LET t == heap[df]
    IN Alloc(heap, [columns |-> [i \in 1..Len(t.columns) |->
                                    IF t.columns[i] = old_name THEN new_name
                                    ELSE t.columns[i]],
                    rows    |-> t.rows])

MapColumn(heap, df, config) ==
    IF "old_name" \notin config.keys THEN Raised(heap, Raise("KeyError", "", "old_name"))
    ELSE IF "new_name" \notin config.keys THEN Raised(heap, Raise("KeyError", "", "new_name"))
    ELSE IF ~HasColumn(heap[df], config.old_name)
    THEN Raised(heap, Raise("ValueError", "Column not found in dataframe", config.old_name))
    ELSE LET df_copy == Copy(heap, df)
             renamed == Rename(df_copy.heap, df_copy.ref, config.old_name, config.new_name)
         IN Returned(renamed.heap, renamed.ref)

\* df_copy[column] = df_copy[column].astype(str).str.upper(): assigns in place
SetColumnUpper(heap, df, column) ==
    LET t == heap[df]
        c == ColumnIndex(t, column)
    IN [heap EXCEPT ![df] =
           [columns |-> t.columns,
            rows    |-> [r \in 1..Len(t.rows) |->
                           [i \in 1..Len(t.columns) |->
                              IF i = c THEN Text(Upper(ToText(t.rows[r][i])))
                              ELSE t.rows[r][i]]]]]

\* variant of _uppercase_column: no df.copy(), the column is set on df itself
UppercaseColumnInPlace(heap, df, config) ==
    IF "column" \notin config.keys THEN Raised(heap, Raise("KeyError", "", "column"))
    ELSE IF ~HasColumn(heap[df], config.column)
    THEN Raised(heap, Raise("ValueError", "Column not found in dataframe", config.column))
    ELSE Returned(SetColumnUpper(heap, df, config.column), df)

UppercaseColumn(heap, df, config) ==
    IF "column" \notin config.keys THEN Raised(heap, Raise("KeyError", "", "column"))
    ELSE IF ~HasColumn(heap[df], config.column)
    THEN Raised(heap, Raise("ValueError", "Column not found in dataframe", config.column))
    ELSE LET df_copy == Copy(heap, df)
         IN Returned(SetColumnUpper(df_copy.heap, df_copy.ref, config.column), df_copy.ref)

\* df_copy[column] = df_copy[column].astype(str).str.upper() on a pandas whose
\* astype(str) keeps a missing value missing (from 3.0 on; before, it gives
\* the text "nan", which is ToText)
SetColumnUpperKeepingNull(heap, df, column) ==
    LET t == heap[df]
        c == ColumnIndex(t, column)
    IN [heap EXCEPT ![df] =
           [columns |-> t.columns,
            rows    |-> [r \in 1..Len(t.rows) |->
                           [i \in 1..Len(t.columns) |->
                              IF i = c /\ t.rows[r][i] # Null
                              THEN Text(Upper(ToText(t.rows[r][i])))
                              ELSE t.rows[r][i]]]]]

\* _uppercase_column on such a pandas
UppercaseColumnKeepingNull(heap, df, config) ==
    IF "column" \notin config.keys THEN Raised(heap, Raise("KeyError", "", "column"))
    ELSE IF ~HasColumn(heap[df], config.column)
    THEN Raised(heap, Raise("ValueError", "Column not found in dataframe", config.column))
    ELSE LET df_copy == Copy(heap, df)
         IN Returned(SetColumnUpperKeepingNull(df_copy.heap, df_copy.ref, config.column),
                     df_copy.ref)

\* transformation_func(result_df, transformation_config)
Apply(func, heap, df, config) ==
    CASE func = "_filter_rows"      -> FilterRows(heap, df, config)
      [] func = "_map_column"       -> MapColumn(heap, df, config)
      [] func = "_uppercase_column" -> UppercaseColumn(heap, df, config)

(***************************************************************************)
(* DataTransformationPipeline. A step is a dict with some of the keys type *)
(* and config. process is instrumented: trace lists, in order, every       *)
(* lookup it made and what each resolved function was given and returned.  *)
(***************************************************************************)
Step(keys, type, config) == [keys |-> keys, type |-> type, config |-> config]

\* step.get('config', {})
ConfigOf(step) == IF "config" \in step.keys THEN step.config ELSE EmptyConfig

Finished(heap, ref, trace) ==
    [ok |-> TRUE, heap |-> heap, ref |-> ref, error |-> NoError, trace |-> trace]

Aborted(heap, error, trace) ==
    [ok |-> FALSE, heap |-> heap, ref |-> 0, error |-> error, trace |-> trace]

\* variant of the loop: every function is given the first working copy
RECURSIVE ProcessLoopOnInput(_, _, _, _, _, _)
ProcessLoopOnInput(reg, heap, result_df, pipeline_config, i, trace) ==
    IF i > Len(pipeline_config) THEN Finished(heap, result_df, trace)
    ELSE LET step   == pipeline_config[i]
             first  == IF trace = <<>> THEN result_df ELSE trace[1].given
             looked == GetTransformation(reg, step.type)
             seen   == [name |-> step.type, func |-> looked.func,
                        given |-> first, given_table |-> heap[first],
                        applied |-> FALSE, returned |-> 0]
         IN IF ~looked.ok
            THEN Aborted(heap, looked.error, Append(trace, seen))
            ELSE LET out  == Apply(looked.func, heap, first, ConfigOf(step))
                     done == [seen EXCEPT !.applied = TRUE, !.returned = out.ref]
                 IN IF ~out.ok
                    THEN Aborted(out.heap, out.error, Append(trace, done))
                    ELSE ProcessLoopOnInput(reg, out.heap, out.ref, pipeline_config,
                                            i + 1, Append(trace, done))

\* variant of the loop: a step whose type does not resolve is skipped
RECURSIVE ProcessLoopSkipUnresolved(_, _, _, _, _, _)
ProcessLoopSkipUnresolved(reg, heap, result_df, pipeline_config, i, trace) ==
    IF i > Len(pipeline_config) THEN Finished(heap, result_df, trace)
    ELSE LET step   == pipeline_config[i]
             looked == GetTransformation(reg, step.type)
             seen   == [name |-> step.type, func |-> looked.func,
                        given |-> result_df, given_table |-> heap[result_df],
                        applied |-> FALSE, returned |-> 0]
         IN IF ~looked.ok
            THEN ProcessLoopSkipUnresolved(reg, heap, result_df, pipeline_config,
                                           i + 1, Append(trace, seen))
            ELSE LET out  == Apply(looked.func, heap, result_df, ConfigOf(step))
                     done == [seen EXCEPT !.applied = TRUE, !.returned = out.ref]
                 IN IF ~out.ok
                    THEN Aborted(out.heap, out.error, Append(trace, done))
                    ELSE ProcessLoopSkipUnresolved(reg, out.heap, out.ref, pipeline_config,
                                                   i + 1, Append(trace, done))

RECURSIVE ProcessLoop(_, _, _, _, _, _)
ProcessLoop(reg, heap, result_df, pipeline_config, i, trace) ==
    IF i > Len(pipeline_config) THEN Finished(heap, result_df, trace)
    ELSE LET step == pipeline_config[i]
         IN IF "type" \notin step.keys
            THEN Aborted(heap, Raise("KeyError", "", "type"), trace)
            ELSE LET transformation_name   == step.type
                     transformation_config == ConfigOf(step)
                     looked == GetTransformation(reg, transformation_name)
                     seen   == [name |-> transformation_name, func |-> looked.func,
                                given |-> result_df, given_table |-> heap[result_df],
                                applied |-> FALSE, returned |-> 0]
                 IN IF ~looked.ok
                    THEN Aborted(heap, looked.error, Append(trace, seen))
                    ELSE LET out  == Apply(looked.func, heap, result_df, transformation_config)
                             done == [seen EXCEPT !.applied = TRUE, !.returned = out.ref]
                         IN IF ~out.ok
                            THEN Aborted(out.heap, out.error, Append(trace, done))
                            ELSE ProcessLoop(reg, out.heap, out.ref, pipeline_config,
                                             i + 1, Append(trace, done))

\* variant of process: an empty pipeline_config is refused
ProcessRefuseEmpty(reg, heap, df, pipeline_config) ==
    IF pipeline_config = <<>>
    THEN Aborted(heap, Raise("ValueError", "Pipeline cannot be empty", ""), <<>>)
    ELSE LET result_df == Copy(heap, df)
         IN ProcessLoop(reg, result_df.heap, result_df.ref, pipeline_config, 1, <<>>)

Process(reg, heap, df, pipeline_config) ==
    LET result_df == Copy(heap, df)
    IN ProcessLoop(reg, result_df.heap, result_df.ref, pipeline_config, 1, <<>>)

(***************************************************************************)
(* Inputs of the model.                                                    *)
(***************************************************************************)
BuiltinNames == <<"filter_rows", "map_column", "uppercase_column">>

Names == {"filter_rows", "map_column", "uppercase_column", "custom", "invalid_transform"}

Funcs == {"_filter_rows", "_map_column", "_uppercase_column"}

\* what the client registers: a new name, or a built-in name again
RegisterNames == {"custom", "uppercase_column"}

RegisterFuncs == {"_uppercase_column", "_map_column"}

\* the table of src/tests/conftest.py (two of its columns), and one with a
\* missing name
People == [columns |-> <<"name", "age">>,
           rows    |-> << <<Text("John"), Num(30)>>, <<Text("Jane"), Num(25)>> >>]

Sparse == [columns |-> <<"name", "age">>,
           rows    |-> << <<Null, Num(45)>>, <<Text("john"), Num(25)>> >>]

Tables == {People, Sparse}

FilterAge == Step({"type", "config"}, "filter_rows",
                  Config({"column", "operator", "value"}, "age", ">", Num(25), "", ""))

FilterName == Step({"type", "config"}, "filter_rows",
                   Config({"column", "value"}, "name", "", Text("John"), "", ""))

RenameName == Step({"type", "config"}, "map_column",
                   Config({"old_name", "new_name"}, "", "", Null, "name", "full_name"))

UpperFullName == Step({"type", "config"}, "uppercase_column",
                      Config({"column"}, "full_name", "", Null, "", ""))

CustomName == Step({"type", "config"}, "custom",
                   Config({"column", "old_name", "new_name"}, "name", "", Null, "age", "years"))

FilterNoConfig == Step({"type"}, "filter_rows", EmptyConfig)

StepPool == {FilterAge, FilterName, RenameName, UpperFullName, CustomName, FilterNoConfig}

Pipelines == UNION {[1..n -> StepPool] : n \in 0..MaxSteps}

(***************************************************************************)
(* The HTTP resources of src/resources/. A request is one record for all   *)
(* endpoints; the fields an endpoint does not read keep their defaults.    *)
(***************************************************************************)
\* a JSON value that should be a string
TextField(is_str, s) == [is_str |-> is_str, s |-> s]

\* a JSON value that should be an object
ObjField(is_dict, config) == [is_dict |-> is_dict, config |-> config]

NoText == TextField(FALSE, "")

NoObj == ObjField(FALSE, EmptyConfig)

\* one element of the steps array: a dict with some of the keys type,
\* config, name, params and other keys, or something that is no dict
JStep(is_dict, keys, type, config, name, params) ==
    [is_dict |-> is_dict, keys |-> keys, type |-> type, config |-> config,
     name |-> name, params |-> params]

\* the form field pipeline: absent, or a text that json.loads parses or not
PipelineField(present, kind, has_steps, steps_is_list, steps) ==
    [present |-> present, kind |-> kind, has_steps |-> has_steps,
     steps_is_list |-> steps_is_list, steps |-> steps]

NoPipeline == PipelineField(FALSE, "", FALSE, FALSE, <<>>)

\* the uploaded file: its name, size in bytes, and what decoding, scanning
\* and pandas.read_csv make of its content
File(present, filename, size, utf8, suspicious, parse, table) ==
    [present |-> present, filename |-> filename, size |-> size, utf8 |-> utf8,
     suspicious |-> suspicious, parse |-> parse, table |-> table]

NoTable == [columns |-> <<>>, rows |-> <<>>]

NoFile == File(FALSE, "", 0, TRUE, FALSE, "", NoTable)

Request(endpoint, name, body, file, pipeline) ==
    [endpoint |-> endpoint, name |-> name, body |-> body, file |-> file,
     pipeline |-> pipeline]

NoRequest == Request("", "", "", NoFile, NoPipeline)

\* the response, and with it whether the handler called pipeline.process
\* and the pipeline_config it passed
NoResponse ==
    [status |-> 0, body |-> "", error |-> NoError, step |-> 0, success |-> FALSE,
     message |-> [name |-> "", state |-> ""], names |-> <<>>,
     original_shape |-> <<0, 0>>, transformed_shape |-> <<0, 0>>, data |-> NoTable,
     invoked |-> FALSE, given |-> <<>>]

\* return {'error': ...}, status
ErrorResponse(status, error, step) ==
    [NoResponse EXCEPT !.status = status, !.body = "error", !.error = error,
                       !.step = step]

BadRequest(msg) == ErrorResponse(400, Raise("", msg, ""), 0)

BadStep(i, msg) == ErrorResponse(400, Raise("", msg, ""), i)

\* HealthCheck.get
HealthGet == [NoResponse EXCEPT !.status = 200, !.body = "status"]

\* Transformations.get
TransformationsGet(reg) ==
    [NoResponse EXCEPT !.status = 200, !.body = "available_transformations",
                       !.names = GetAvailableTransformations(reg)]

\* data.get('enabled', True) of the toggle's JSON body
BodyEnabled(body) == body # "enabled_false"

\* TransformationToggle.post: the registry after it, and the response
TogglePost(reg, name, body) ==
    IF body = "none"
    THEN [registry |-> reg,
          response |-> [NoResponse EXCEPT !.status = 400, !.body = "message"]]
    ELSE [registry |-> Enable(reg, name, BodyEnabled(body)),
          response |-> [NoResponse EXCEPT
                           !.status = 200, !.body = "success", !.success = TRUE,
                           !.message = [name |-> name,
                                        state |-> IF BodyEnabled(body) THEN "enabled"
                                                  ELSE "disabled"]]]

MAX_FILE_SIZE == 10 * 1024 * 1024

MaxPipelineSteps == 10

MaxColumns == 100

\* file.filename.lower().endswith('.csv')
EndsWithCsv(filename) == filename \in {"test.csv", "TEST.CSV"}

\* mimetypes.guess_type(file.filename)[0]
GuessType(filename) ==
    CASE filename \in {"test.csv", "TEST.CSV"} -> "text/csv"
      [] filename = "test.txt"                 -> "text/plain"
      [] OTHER                                 -> ""

\* the old format {"steps": [{"name": ..., "params": ...}]} converted; the
\* first element that is no dict or has no name ends the request
\* variant of the conversion: params is not carried over, config is {}
RECURSIVE ConvertStepsNoParams(_, _, _)
ConvertStepsNoParams(steps, i, converted) ==
    IF i > Len(steps) THEN [ok |-> TRUE, steps |-> converted, response |-> NoResponse]
    ELSE IF ~steps[i].is_dict
    THEN [ok |-> FALSE, steps |-> <<>>, response |-> BadRequest("Each step must be an object")]
    ELSE IF "name" \notin steps[i].keys
    THEN [ok |-> FALSE, steps |-> <<>>,
          response |-> BadRequest("Step missing required name field")]
    ELSE ConvertStepsNoParams(steps, i + 1,
             Append(converted,
                    JStep(TRUE, {"type", "config"}, steps[i].name,
                          ObjField(TRUE, EmptyConfig), NoText, NoObj)))

RECURSIVE ConvertSteps(_, _, _)
ConvertSteps(steps, i, converted) ==
    IF i > Len(steps) THEN [ok |-> TRUE, steps |-> converted, response |-> NoResponse]
    ELSE IF ~steps[i].is_dict
    THEN [ok |-> FALSE, steps |-> <<>>, response |-> BadRequest("Each step must be an object")]
    ELSE IF "name" \notin steps[i].keys
    THEN [ok |-> FALSE, steps |-> <<>>,
          response |-> BadRequest("Step missing required name field")]
    ELSE ConvertSteps(steps, i + 1,
             Append(converted,
                    JStep(TRUE, {"type", "config"}, steps[i].name,
                          IF "params" \in steps[i].keys THEN steps[i].params
                          ELSE ObjField(TRUE, EmptyConfig),
                          NoText, NoObj)))

\* variant of the checks of one step: no test for unexpected fields
ValidateStepAnyFields(i, step) ==
    IF ~step.is_dict THEN BadStep(i, "Each step must be an object")
    ELSE IF "type" \notin step.keys THEN BadStep(i, "Missing required type field")
    ELSE IF ~step.type.is_str THEN BadStep(i, "type must be a string")
    ELSE IF "config" \notin step.keys THEN BadStep(i, "Missing required config field")
    ELSE IF ~step.config.is_dict THEN BadStep(i, "config must be an object")
    ELSE NoResponse

\* the checks of one step, in the order of the source; NoResponse when it passes
ValidateStep(i, step) ==
    IF ~step.is_dict THEN BadStep(i, "Each step must be an object")
    ELSE IF "type" \notin step.keys THEN BadStep(i, "Missing required type field")
    ELSE IF ~step.type.is_str THEN BadStep(i, "type must be a string")
    ELSE IF "config" \notin step.keys THEN BadStep(i, "Missing required config field")
    ELSE IF ~step.config.is_dict THEN BadStep(i, "config must be an object")
    ELSE IF step.keys \ {"type", "config"} # {} THEN BadStep(i, "Unexpected fields")
    ELSE NoResponse

RECURSIVE ValidateSteps(_, _)
ValidateSteps(steps, i) ==
    IF i > Len(steps) THEN NoResponse
    ELSE IF ValidateStep(i, steps[i]) # NoResponse THEN ValidateStep(i, steps[i])
    ELSE ValidateSteps(steps, i + 1)

\* a step of pipeline_config as the dict process reads
StepOf(step) == Step(step.keys, step.type.s, step.config.config)

\* Transform.post from the pipeline field on: the validated pipeline_config,
\* or the response that ends the request
ParsePipeline(field) ==
    IF ~field.present \/ field.kind = "empty"
    THEN [ok |-> FALSE, steps |-> <<>>,
          response |-> BadRequest("No pipeline configuration provided")]
    ELSE IF field.kind = "invalid"
    THEN [ok |-> FALSE, steps |-> <<>>,
          response |-> BadRequest("Invalid JSON in pipeline configuration")]
    ELSE IF field.kind = "dict" /\ field.has_steps /\ ~field.steps_is_list
    THEN [ok |-> FALSE, steps |-> <<>>,
          response |-> BadRequest("Pipeline steps must be a list")]
    ELSE LET converted == IF field.kind = "dict" /\ field.has_steps
                          THEN ConvertSteps(field.steps, 1, <<>>)
                          ELSE [ok |-> field.kind = "list", steps |-> field.steps,
                                response |-> BadRequest(
                                    "Pipeline must be a list of transformation steps")]
         IN IF ~converted.ok THEN converted
            ELSE IF Len(converted.steps) = 0
            THEN [ok |-> FALSE, steps |-> <<>>,
                  response |-> BadRequest("Pipeline cannot be empty")]
            ELSE IF Len(converted.steps) > MaxPipelineSteps
            THEN [ok |-> FALSE, steps |-> <<>>,
                  response |-> BadRequest("Pipeline cannot have more than 10 steps")]
            ELSE IF ValidateSteps(converted.steps, 1) # NoResponse
            THEN [ok |-> FALSE, steps |-> <<>>,
                  response |-> ValidateSteps(converted.steps, 1)]
            ELSE [ok |-> TRUE, steps |-> converted.steps, response |-> NoResponse]

\* Transform.post from reading the file content on
ReadAndProcess(reg, file, steps) ==
    IF ~file.utf8
    THEN ErrorResponse(500, Raise("UnicodeDecodeError", "invalid start byte", ""), 0)
    ELSE IF file.suspicious
    THEN BadRequest("File contains potentially malicious content")
    ELSE IF file.parse = "EmptyDataError"
    THEN BadRequest("CSV file is empty or has no valid data")
    ELSE IF file.parse = "ParserError"
    THEN BadRequest("Invalid CSV format")
    ELSE IF Len(file.table.rows) = 0 \/ Len(file.table.columns) = 0
    THEN BadRequest("CSV file contains no data rows")
    ELSE IF Len(file.table.columns) > MaxColumns
    THEN BadRequest("CSV file has too many columns (max 100)")
    ELSE LET out == Process(reg, <<file.table>>, 1,
                            [i \in 1..Len(steps) |-> StepOf(steps[i])])
         IN IF ~out.ok
            THEN [ErrorResponse(500, out.error, 0) EXCEPT !.invoked = TRUE, !.given = steps]
            ELSE [NoResponse EXCEPT
                     !.status = 200, !.body = "result",
                     !.original_shape = Shape(out.heap[1]),
                     !.transformed_shape = Shape(out.heap[out.ref]),
                     !.data = out.heap[out.ref],
                     !.invoked = TRUE, !.given = steps]

\* Transform.post
TransformPost(reg, req) ==
    IF ~req.file.present THEN BadRequest("No file provided")
    ELSE IF req.file.filename = "" THEN BadRequest("No file selected")
    ELSE IF ~EndsWithCsv(req.file.filename) THEN BadRequest("Only CSV files are supported")
    ELSE IF /\ GuessType(req.file.filename) # ""
            /\ GuessType(req.file.filename) \notin {"text/csv", "text/plain", "application/csv"}
    THEN BadRequest("Invalid file type. Expected CSV format")
    ELSE IF req.file.size > MAX_FILE_SIZE THEN BadRequest("File too large")
    ELSE IF req.file.size = 0 THEN BadRequest("Empty file provided")
    ELSE LET parsed == ParsePipeline(req.pipeline)
         IN IF ~parsed.ok THEN parsed.response
            ELSE ReadAndProcess(reg, req.file, parsed.steps)

(***************************************************************************)
(* Spec: the client of one registry and its pipeline. The client makes one *)
(* call at a time: a call leaves its arguments and outcome in call, pre,   *)
(* ret and run, and Return drops them before the next call.                *)
(***************************************************************************)
Call(op, name, func, has_enabled, enabled) ==
    [op |-> op, name |-> name, func |-> func, has_enabled |-> has_enabled,
     enabled |-> enabled]

Idle == Call("idle", "", NoFunc, FALSE, TRUE)

NoRet == [ok |-> TRUE, func |-> NoFunc, error |-> NoError, names |-> <<>>]

\* what a process call gave its caller: a table, or an exception
Outcome(out) ==
    [ok |-> out.ok, table |-> IF out.ok THEN out.heap[out.ref] ELSE NoTable,
     error |-> out.error]

\* no process call kept
NoEarlier == [valid |-> FALSE, table |-> NoTable, pipeline_config |-> <<>>,
              outcome |-> Outcome(Finished(<<NoTable>>, 1, <<>>)), changed |-> FALSE]

NoRun == [heap |-> <<>>, df |-> 0, pipeline_config |-> <<>>,
          out |-> Finished(<<>>, 0, <<>>), earlier |-> NoEarlier]

\* the process calls whose outcome the client keeps to compare with the
\* next process call on the same table and steps
Replayed == {<<People, <<FilterAge>>>>}

\* a process call as it is kept
Kept(table, pipeline_config, out) ==
    [valid |-> TRUE, table |-> table, pipeline_config |-> pipeline_config,
     outcome |-> Outcome(out), changed |-> FALSE]

\* earlier once the registry went from reg to after
Since(reg, after) ==
    IF earlier.valid /\ after # reg THEN [earlier EXCEPT !.changed = TRUE] ELSE earlier

NotToggled == [phase |-> "", name |-> "", reg |-> EmptyRegistry]

NotListed == [valid |-> FALSE, names |-> <<>>, again |-> FALSE, previous |-> <<>>]

\* a function of the registry called on a DataFrame of its own: the
\* function, the heap and DataFrame it is given, its config and its outcome
Applied(func, heap, df, config) ==
    [func |-> func, heap |-> heap, df |-> df, config |-> config,
     astype_keeps_null |-> FALSE, out |-> Apply(func, heap, df, config)]

NotApplied == [func |-> NoFunc, heap |-> <<>>, df |-> 0, config |-> EmptyConfig,
               astype_keeps_null |-> FALSE, out |-> Returned(<<>>, 0)]

\* the threads that call the shared registry's methods
Threads == 1..NumThreads

\* a thread's call: the method, its arguments, the statement it is at, and
\* what it returned or raised once it is done
ThreadCall(op, name, func, enabled, pc) ==
    [op |-> op, name |-> name, func |-> func, enabled |-> enabled, pc |-> pc,
     observed |-> "", ok |-> TRUE, returned |-> NoFunc, error |-> NoError]

NotCalling == ThreadCall("", "", NoFunc, TRUE, "")

Init ==
    /\ registry = NewRegistry
    /\ call = Idle
    /\ pre = EmptyRegistry
    /\ ret = NoRet
    /\ run = NoRun
    /\ last_registered = [n \in Names |->
                            CASE n = "filter_rows"      -> "_filter_rows"
                              [] n = "map_column"       -> "_map_column"
                              [] n = "uppercase_column" -> "_uppercase_column"
                              [] OTHER                  -> NoFunc]
    /\ registration_order = BuiltinNames
    /\ toggled = NotToggled
    /\ listed = NotListed
    /\ earlier = NoEarlier
    /\ transformations_registry = NewRegistry
    /\ transform_registry = NewRegistry
    /\ request = NoRequest
    /\ response = NoResponse
    /\ before = EmptyRegistry
    /\ switched_off = {}
    /\ shared = NewRegistry
    /\ threads = [t \in Threads |-> NotCalling]
    /\ ever_disabled = {}
    /\ applied = NotApplied

\* the value of the enabled parameter: the argument, or the default True
Effective(has_enabled, enabled) == IF has_enabled THEN enabled ELSE TRUE

EnabledArgs == {<<TRUE, TRUE>>, <<TRUE, FALSE>>, <<FALSE, TRUE>>}

DoRegister ==
    /\ call = Idle
    /\ \E name \in RegisterNames, func \in RegisterFuncs, a \in EnabledArgs :
        /\ registry' = IF a[1] THEN Register(registry, name, func, a[2])
                       ELSE RegisterDefault(registry, name, func)
        /\ call' = Call("register", name, func, a[1], a[2])
        /\ pre' = registry
        /\ ret' = NoRet
        /\ run' = NoRun
        /\ last_registered' = [last_registered EXCEPT ![name] = func]
        /\ registration_order' =
               IF \E i \in 1..Len(registration_order) : registration_order[i] = name
               THEN registration_order
               ELSE Append(registration_order, name)
        /\ toggled' = NotToggled
        /\ listed' = NotListed
        /\ earlier' = Since(registry, registry')
        /\ UNCHANGED <<app_vars, thread_vars, func_vars>>

\* toggled follows enable(name, False) immediately followed by enable(name, True)
DoEnable ==
    /\ call = Idle
    /\ \E name \in Names, a \in EnabledArgs :
        /\ registry' = Enable(registry, name, Effective(a[1], a[2]))
        /\ call' = Call("enable", name, NoFunc, a[1], a[2])
        /\ pre' = registry
        /\ ret' = NoRet
        /\ run' = NoRun
        /\ toggled' = IF ~Effective(a[1], a[2])
                      THEN [phase |-> "off", name |-> name, reg |-> registry]
                      ELSE IF toggled.phase = "off" /\ toggled.name = name
                      THEN [toggled EXCEPT !.phase = "on"]
                      ELSE NotToggled
        /\ listed' = NotListed
        /\ earlier' = Since(registry, registry')
        /\ UNCHANGED <<last_registered, registration_order>>
        /\ UNCHANGED <<app_vars, thread_vars, func_vars>>

\* variant of get_transformation: a lookup uses the name up, its flag is
\* cleared
DoGetTransformationConsuming ==
    /\ call = Idle
    /\ \E name \in Names :
        LET got == GetTransformation(registry, name)
        IN /\ call' = Call("get_transformation", name, NoFunc, FALSE, TRUE)
           /\ pre' = registry
           /\ registry' = Enable(registry, name, FALSE)
           /\ ret' = [ok |-> got.ok, func |-> got.func, error |-> got.error, names |-> <<>>]
           /\ run' = NoRun
           /\ toggled' = NotToggled
           /\ UNCHANGED <<last_registered, registration_order, listed, earlier>>
           /\ UNCHANGED <<app_vars, thread_vars, func_vars>>

DoGetTransformation ==
    /\ call = Idle
    /\ \E name \in Names :
        LET got == GetTransformation(registry, name)
        IN /\ call' = Call("get_transformation", name, NoFunc, FALSE, TRUE)
           /\ pre' = registry
           /\ ret' = [ok |-> got.ok, func |-> got.func, error |-> got.error, names |-> <<>>]
           /\ run' = NoRun
           /\ toggled' = NotToggled
           /\ UNCHANGED <<registry, last_registered, registration_order, listed, earlier>>
           /\ UNCHANGED <<app_vars, thread_vars, func_vars>>

\* listed keeps the list returned until the next register or enable, and
\* the one returned before it when that was still current
DoGetAvailableTransformations ==
    /\ call = Idle
    /\ call' = Call("get_available_transformations", "", NoFunc, FALSE, TRUE)
    /\ pre' = registry
    /\ ret' = [NoRet EXCEPT !.names = GetAvailableTransformations(registry)]
    /\ run' = NoRun
    /\ toggled' = NotToggled
    /\ listed' = [valid |-> TRUE, names |-> GetAvailableTransformations(registry),
                   again |-> listed.valid, previous |-> listed.names]
    /\ UNCHANGED <<registry, last_registered, registration_order, earlier>>
    /\ UNCHANGED <<app_vars, thread_vars, func_vars>>

DoProcess ==
    /\ call = Idle
    /\ \E table \in Tables, pipeline_config \in Pipelines :
        /\ call' = Call("process", "", NoFunc, FALSE, TRUE)
        /\ pre' = registry
        /\ ret' = NoRet
        /\ run' = [heap |-> <<table>>, df |-> 1, pipeline_config |-> pipeline_config,
                   out |-> Process(registry, <<table>>, 1, pipeline_config),
                   earlier |-> IF /\ earlier.valid
                                  /\ earlier.table = table
                                  /\ earlier.pipeline_config = pipeline_config
                               THEN earlier ELSE NoEarlier]
        /\ earlier' = IF <<table, pipeline_config>> \in Replayed
                       THEN Kept(table, pipeline_config,
                                 Process(registry, <<table>>, 1, pipeline_config))
                       ELSE NoEarlier
        /\ toggled' = NotToggled
        /\ UNCHANGED <<registry, last_registered, registration_order, listed>>
        /\ UNCHANGED <<app_vars, thread_vars, func_vars>>

\* the client calls process once more with the DataFrame and the steps of
\* the call that just ended
DoProcessAgain ==
    /\ call.op = "process"
    /\ ~run.earlier.valid
    /\ run' = [heap |-> <<run.out.heap[run.df]>>, df |-> 1,
               pipeline_config |-> run.pipeline_config,
               out |-> Process(registry, <<run.out.heap[run.df]>>, 1, run.pipeline_config),
               earlier |-> Kept(run.heap[run.df], run.pipeline_config, run.out)]
    /\ UNCHANGED <<registry, call, pre, ret, last_registered, registration_order, toggled,
                   listed, earlier>>
    /\ UNCHANGED <<app_vars, thread_vars, func_vars>>

Return ==
    /\ call # Idle
    /\ call' = Idle
    /\ pre' = EmptyRegistry
    /\ ret' = NoRet
    /\ run' = NoRun
    /\ UNCHANGED <<registry, last_registered, registration_order, toggled, listed, earlier>>
    /\ UNCHANGED <<app_vars, thread_vars, func_vars>>

Next ==
    \/ DoRegister
    \/ DoEnable
    \/ DoGetTransformation
    \/ DoGetAvailableTransformations
    \/ DoProcess
    \/ DoProcessAgain
    \/ Return

Spec == Init /\ [][Next]_vars

(***************************************************************************)
(* AppSpec: the application of src/app.py. Each request is answered by its *)
(* resource in one step; Respond sends the answer and takes no more part.  *)
(***************************************************************************)
\* the JSON body of a toggle request: {"enabled": true}, {"enabled": false},
\* {} or no body at all
ToggleBodies == {"enabled_true", "enabled_false", "empty", "none"}

Flat(step) ==
    JStep(TRUE, step.keys, TextField(TRUE, step.type), ObjField(TRUE, step.config),
          NoText, NoObj)

Wrapped(step) ==
    JStep(TRUE, {"name", "params"}, NoText, NoObj, TextField(TRUE, step.type),
          ObjField(TRUE, step.config))

FlatExtraKey == [Flat(FilterAge) EXCEPT !.keys = {"type", "config", "extra"}]

FlatNoConfig == [Flat(FilterAge) EXCEPT !.keys = {"type"}]

FlatNoType == [Flat(FilterAge) EXCEPT !.keys = {"config"}]

\* "type": 5
FlatTypeNotStr == [Flat(FilterAge) EXCEPT !.type = NoText]

\* "config": []
FlatConfigNotObj == [Flat(FilterAge) EXCEPT !.config = NoObj]

\* an element of the list that is no object, such as a string
NotAnObject == JStep(FALSE, {}, NoText, NoObj, NoText, NoObj)

FlatPool == {Flat(FilterAge), Flat(RenameName), Flat(UpperFullName), Flat(CustomName),
             FlatExtraKey, FlatNoConfig, FlatNoType, FlatTypeNotStr, FlatConfigNotObj,
             NotAnObject}

WrappedExtraKey == [Wrapped(FilterAge) EXCEPT !.keys = {"name", "params", "extra"}]

WrappedNoParams == [Wrapped(FilterAge) EXCEPT !.keys = {"name"}]

WrappedNoName == [Wrapped(FilterAge) EXCEPT !.keys = {"params"}]

WrappedNameNotStr == [Wrapped(FilterAge) EXCEPT !.name = NoText]

WrappedParamsNotObj == [Wrapped(FilterAge) EXCEPT !.params = NoObj]

WrappedPool == {Wrapped(FilterAge), Wrapped(RenameName), Wrapped(UpperFullName),
                Wrapped(CustomName), WrappedExtraKey, WrappedNoParams, WrappedNoName,
                WrappedNameNotStr, WrappedParamsNotObj, NotAnObject}

TooManySteps == [i \in 1..(MaxPipelineSteps + 1) |-> Flat(RenameName)]

PipelineFields ==
    {NoPipeline,
     PipelineField(TRUE, "empty", FALSE, FALSE, <<>>),
     PipelineField(TRUE, "invalid", FALSE, FALSE, <<>>),
     PipelineField(TRUE, "other", FALSE, FALSE, <<>>),
     PipelineField(TRUE, "dict", FALSE, FALSE, <<>>),
     PipelineField(TRUE, "dict", TRUE, FALSE, <<>>),
     PipelineField(TRUE, "list", FALSE, FALSE, TooManySteps)}
    \cup {PipelineField(TRUE, "list", FALSE, FALSE, steps) :
            steps \in UNION {[1..n -> FlatPool] : n \in 0..MaxSteps}}
    \cup {PipelineField(TRUE, "dict", TRUE, TRUE, steps) :
            steps \in UNION {[1..n -> WrappedPool] : n \in 0..MaxSteps}}

HeaderOnly == [columns |-> <<"name", "age">>, rows |-> <<>>]

\* one row of one column more than the handler lets through
Wide == [columns |-> [i \in 1..(MaxColumns + 1) |-> "c" \o ToString(i)],
         rows    |-> << [i \in 1..(MaxColumns + 1) |-> Num(0)] >>]

Files ==
    {NoFile,
     File(TRUE, "", 44, TRUE, FALSE, "ok", People),
     File(TRUE, "test.txt", 44, TRUE, FALSE, "ok", People),
     File(TRUE, "test.csv", 44, TRUE, FALSE, "ok", People),
     File(TRUE, "TEST.CSV", 44, TRUE, FALSE, "ok", Sparse),
     File(TRUE, "test.csv", 0, TRUE, FALSE, "EmptyDataError", NoTable),
     File(TRUE, "test.csv", 1, TRUE, FALSE, "EmptyDataError", NoTable),
     File(TRUE, "test.csv", 9, TRUE, FALSE, "ok", HeaderOnly),
     File(TRUE, "test.csv", 44, FALSE, FALSE, "ok", People),
     File(TRUE, "test.csv", 44, TRUE, TRUE, "ok", People),
     File(TRUE, "test.csv", 44, TRUE, FALSE, "ParserError", NoTable),
     File(TRUE, "test.csv", 500, TRUE, FALSE, "ok", Wide),
     File(TRUE, "test.csv", MAX_FILE_SIZE + 1, TRUE, FALSE, "ok", People)}

PostToggle ==
    /\ request = NoRequest
    /\ \E name \in Names, body \in ToggleBodies :
        LET done == TogglePost(transformations_registry, name, body)
        IN /\ request' = Request("toggle", name, body, NoFile, NoPipeline)
           /\ before' = transformations_registry
           /\ transformations_registry' = done.registry
           /\ response' = done.response
           /\ switched_off' =
                  IF body = "none" THEN switched_off
                  ELSE IF ~BodyEnabled(body)
                          /\ DictHas(transformations_registry.transformations, name)
                  THEN switched_off \cup {name}
                  ELSE switched_off \ {name}
           /\ UNCHANGED transform_registry
           /\ UNCHANGED <<lib_vars, thread_vars, func_vars>>

GetTransformations ==
    /\ request = NoRequest
    /\ request' = Request("transformations", "", "", NoFile, NoPipeline)
    /\ before' = transformations_registry
    /\ response' = TransformationsGet(transformations_registry)
    /\ UNCHANGED <<transformations_registry, transform_registry, switched_off>>
    /\ UNCHANGED <<lib_vars, thread_vars, func_vars>>

GetHealth ==
    /\ request = NoRequest
    /\ request' = Request("health", "", "", NoFile, NoPipeline)
    /\ before' = transformations_registry
    /\ response' = HealthGet
    /\ UNCHANGED <<transformations_registry, transform_registry, switched_off>>
    /\ UNCHANGED <<lib_vars, thread_vars, func_vars>>

PostTransform ==
    /\ request = NoRequest
    /\ \E file \in Files, pipeline \in PipelineFields :
        /\ request' = Request("transform", "", "", file, pipeline)
        /\ before' = transformations_registry
        /\ response' = TransformPost(transform_registry, request')
        /\ UNCHANGED <<transformations_registry, transform_registry, switched_off>>
        /\ UNCHANGED <<lib_vars, thread_vars, func_vars>>

Respond ==
    /\ request # NoRequest
    /\ request' = NoRequest
    /\ response' = NoResponse
    /\ before' = EmptyRegistry
    /\ UNCHANGED <<transformations_registry, transform_registry, switched_off>>
    /\ UNCHANGED <<lib_vars, thread_vars, func_vars>>

AppNext ==
    \/ PostToggle
    \/ GetTransformations
    \/ GetHealth
    \/ PostTransform
    \/ Respond

AppSpec == Init /\ [][AppNext]_vars

(***************************************************************************)
(* FuncSpec: each built-in function of the registry is called on its own,  *)
(* on a DataFrame and a config drawn from the sets below.                  *)
(***************************************************************************)
\* People with the columns the other way round
AgeFirst == [columns |-> <<"age", "name">>,
             rows    |-> << <<Num(30), Text("John")>>, <<Num(25), Text("Jane")>>,
                            <<Num(30), Text("Jane")>> >>]

FuncTables == {People, Sparse, AgeFirst}

FuncColumns == {"name", "age", "salary"}

\* the operators of the source, one it does not have, and "" for a config
\* without operator
FuncOperators == {"==", "!=", ">", "<", ">=", "<=", "contains", "~=", ""}

FuncValues == {Text("John"), Text("oh"), Text("an"), Text("J.hn"), Text("("),
               Num(25), Num(30)}

FilterConfigs ==
    {Config(IF operator = "" THEN {"column", "value"} ELSE {"column", "operator", "value"},
            column, operator, value, "", "") :
        column \in FuncColumns, operator \in FuncOperators, value \in FuncValues}
    \cup {Config({"column", "operator"}, "age", "==", Null, "", ""),
          Config({"operator", "value"}, "", "~=", Num(25), "", ""),
          EmptyConfig}

MapConfigs ==
    {Config({"old_name", "new_name"}, "", "", Null, old_name, new_name) :
        old_name \in FuncColumns, new_name \in {"name", "age", "full_name"}}
    \cup {Config({"old_name"}, "", "", Null, "name", ""),
          Config({"new_name"}, "", "", Null, "", "full_name")}

UppercaseConfigs ==
    {Config({"column"}, column, "", Null, "", "") : column \in FuncColumns}
    \cup {EmptyConfig}

ApplyFilterRows ==
    /\ applied = NotApplied
    /\ \E table \in FuncTables, config \in FilterConfigs :
          applied' = Applied("_filter_rows", <<table>>, 1, config)
    /\ UNCHANGED <<lib_vars, app_vars, thread_vars>>

ApplyMapColumn ==
    /\ applied = NotApplied
    /\ \E table \in FuncTables, config \in MapConfigs :
          applied' = Applied("_map_column", <<table>>, 1, config)
    /\ UNCHANGED <<lib_vars, app_vars, thread_vars>>

ApplyUppercaseColumn ==
    /\ applied = NotApplied
    /\ \E table \in FuncTables, config \in UppercaseConfigs, keeps \in BOOLEAN :
          applied' = [Applied("_uppercase_column", <<table>>, 1, config) EXCEPT
                         !.astype_keeps_null = keeps,
                         !.out = IF keeps
                                 THEN UppercaseColumnKeepingNull(<<table>>, 1, config)
                                 ELSE @]
    /\ UNCHANGED <<lib_vars, app_vars, thread_vars>>

\* the function has returned or raised
FuncReturn ==
    /\ applied # NotApplied
    /\ applied' = NotApplied
    /\ UNCHANGED <<lib_vars, app_vars, thread_vars>>

FuncNext ==
    \/ ApplyFilterRows
    \/ ApplyMapColumn
    \/ ApplyUppercaseColumn
    \/ FuncReturn

FuncSpec == Init /\ [][FuncNext]_vars

(***************************************************************************)
(* ThreadSpec: threads of one process (src/app.py serves with threads=4)   *)
(* call register, enable and get_transformation on one registry. The       *)
(* methods take no lock, so a thread may be suspended between any two of a *)
(* method's statements; one dict read or write is one step.                *)
(***************************************************************************)
ThreadRegisterNames == {"custom"}

ThreadNames == {"custom", "filter_rows"}

\* register(name, func, enabled) is called
CallRegister ==
    \E t \in Threads :
        /\ threads[t] = NotCalling
        /\ \E name \in ThreadRegisterNames, func \in RegisterFuncs, enabled \in BOOLEAN :
              /\ threads' = [threads EXCEPT
                                ![t] = ThreadCall("register", name, func, enabled, "set_func")]
              /\ ever_disabled' = IF enabled THEN ever_disabled
                                   ELSE ever_disabled \cup {name}
        /\ UNCHANGED shared
        /\ UNCHANGED <<lib_vars, app_vars, func_vars>>

\* self._transformations[name] = func
RegisterSetFunc ==
    \E t \in Threads :
        /\ threads[t].op = "register"
        /\ threads[t].pc = "set_func"
        /\ shared' = [shared EXCEPT !.transformations =
                          DictSet(shared.transformations, threads[t].name, threads[t].func)]
        /\ threads' = [threads EXCEPT ![t].pc = "set_flag"]
        /\ UNCHANGED ever_disabled
        /\ UNCHANGED <<lib_vars, app_vars, func_vars>>

\* self._enabled_transformations[name] = enabled
RegisterSetFlag ==
    \E t \in Threads :
        /\ threads[t].op = "register"
        /\ threads[t].pc = "set_flag"
        /\ shared' = [shared EXCEPT !.enabled =
                          DictSet(shared.enabled, threads[t].name, threads[t].enabled)]
        /\ threads' = [threads EXCEPT ![t].pc = "done"]
        /\ UNCHANGED ever_disabled
        /\ UNCHANGED <<lib_vars, app_vars, func_vars>>

\* enable(name, enabled) is called
CallEnable ==
    \E t \in Threads :
        /\ threads[t] = NotCalling
        /\ \E name \in ThreadNames, enabled \in BOOLEAN :
              /\ threads' = [threads EXCEPT
                                ![t] = ThreadCall("enable", name, NoFunc, enabled, "check")]
              /\ ever_disabled' = IF enabled THEN ever_disabled
                                   ELSE ever_disabled \cup {name}
        /\ UNCHANGED shared
        /\ UNCHANGED <<lib_vars, app_vars, func_vars>>

\* if name in self._transformations
EnableCheck ==
    \E t \in Threads :
        /\ threads[t].op = "enable"
        /\ threads[t].pc = "check"
        /\ threads' = [threads EXCEPT
                          ![t].pc = IF DictHas(shared.transformations, threads[t].name)
                                    THEN "set_flag" ELSE "done"]
        /\ UNCHANGED <<shared, ever_disabled>>
        /\ UNCHANGED <<lib_vars, app_vars, func_vars>>

\* self._enabled_transformations[name] = enabled
EnableSetFlag ==
    \E t \in Threads :
        /\ threads[t].op = "enable"
        /\ threads[t].pc = "set_flag"
        /\ shared' = [shared EXCEPT !.enabled =
                          DictSet(shared.enabled, threads[t].name, threads[t].enabled)]
        /\ threads' = [threads EXCEPT ![t].pc = "done"]
        /\ UNCHANGED ever_disabled
        /\ UNCHANGED <<lib_vars, app_vars, func_vars>>

\* get_transformation(name) is called
CallGetTransformation ==
    \E t \in Threads :
        /\ threads[t] = NotCalling
        /\ \E name \in ThreadNames :
              threads' = [threads EXCEPT
                             ![t] = ThreadCall("get_transformation", name, NoFunc, TRUE,
                                               "check_registered")]
        /\ UNCHANGED <<shared, ever_disabled>>
        /\ UNCHANGED <<lib_vars, app_vars, func_vars>>

\* if name not in self._transformations: raise ValueError(... not found)
GetCheckRegistered ==
    \E t \in Threads :
        /\ threads[t].op = "get_transformation"
        /\ threads[t].pc = "check_registered"
        /\ threads' = [threads EXCEPT ![t] =
                          IF ~DictHas(shared.transformations, threads[t].name)
                          THEN [threads[t] EXCEPT
                                   !.pc = "done", !.observed = "unregistered", !.ok = FALSE,
                                   !.error = Raise("ValueError", "not found",
                                                   threads[t].name)]
                          ELSE [threads[t] EXCEPT !.pc = "check_enabled"]]
        /\ UNCHANGED <<shared, ever_disabled>>
        /\ UNCHANGED <<lib_vars, app_vars, func_vars>>

\* if not self._enabled_transformations.get(name, False): raise
\* ValueError(... is disabled)
GetCheckEnabled ==
    \E t \in Threads :
        /\ threads[t].op = "get_transformation"
        /\ threads[t].pc = "check_enabled"
        /\ threads' = [threads EXCEPT ![t] =
                          LET seen == IF DictHas(shared.enabled, threads[t].name)
                                      THEN "func_and_flag" ELSE "func_without_flag"
                          IN IF ~DictGet(shared.enabled, threads[t].name, FALSE)
                             THEN [threads[t] EXCEPT
                                      !.pc = "done", !.observed = seen, !.ok = FALSE,
                                      !.error = Raise("ValueError", "is disabled",
                                                      threads[t].name)]
                             ELSE [threads[t] EXCEPT !.pc = "fetch", !.observed = seen]]
        /\ UNCHANGED <<shared, ever_disabled>>
        /\ UNCHANGED <<lib_vars, app_vars, func_vars>>

\* return self._transformations[name]
GetFetch ==
    \E t \in Threads :
        /\ threads[t].op = "get_transformation"
        /\ threads[t].pc = "fetch"
        /\ threads' = [threads EXCEPT
                          ![t].pc = "done",
                          ![t].returned = DictGet(shared.transformations, threads[t].name,
                                                  NoFunc)]
        /\ UNCHANGED <<shared, ever_disabled>>
        /\ UNCHANGED <<lib_vars, app_vars, func_vars>>

\* the call returns or raises to the thread's caller
ThreadReturn ==
    \E t \in Threads :
        /\ threads[t].pc = "done"
        /\ threads' = [threads EXCEPT ![t] = NotCalling]
        /\ UNCHANGED <<shared, ever_disabled>>
        /\ UNCHANGED <<lib_vars, app_vars, func_vars>>

ThreadNext ==
    \/ CallRegister
    \/ RegisterSetFunc
    \/ RegisterSetFlag
    \/ CallEnable
    \/ EnableCheck
    \/ EnableSetFlag
    \/ CallGetTransformation
    \/ GetCheckRegistered
    \/ GetCheckEnabled
    \/ GetFetch
    \/ ThreadReturn

ThreadSpec == Init /\ [][ThreadNext]_vars

(***************************************************************************)
(* Properties of the registry.                                             *)
(***************************************************************************)
NotFound(name) == Raise("ValueError", "not found", name)

Disabled(name) == Raise("ValueError", "is disabled", name)

\* the enabled flag the registry holds for a registered name
Flag(reg, name) == DictGet(reg.enabled, name, FALSE)

\* C1: get_transformation(name) fails NotFound when name was never
\* registered, fails Disabled when name is registered and its flag is false,
\* and otherwise returns the func most recently registered under name.
C1_GetTransformationOutcomes ==
    call.op = "get_transformation" =>
        /\ last_registered[call.name] = NoFunc =>
               ~ret.ok /\ ret.error = NotFound(call.name)
        /\ last_registered[call.name] # NoFunc /\ ~Flag(registry, call.name) =>
               ~ret.ok /\ ret.error = Disabled(call.name)
        /\ last_registered[call.name] # NoFunc /\ Flag(registry, call.name) =>
               ret.ok /\ ret.func = last_registered[call.name] /\ ret.error = NoError

\* C1 witness: each of the three outcomes is reached once a built-in name
\* has been registered again with another func.
C1_Witness ==
    /\ call.op = "get_transformation"
    /\ call.name = "uppercase_column"
    /\ ret.ok
    /\ ret.func = "_map_column"

C1_WitnessDisabled ==
    /\ call.op = "get_transformation"
    /\ ret.error = Disabled("custom")

C1_WitnessNotFound ==
    /\ call.op = "get_transformation"
    /\ ret.error = NotFound("custom")

\* the names of a sequence whose flag is true in reg, in the sequence's order
EnabledAmong(names, reg) == SelectSeq(names, LAMBDA n : Flag(reg, n))

\* C5: get_available_transformations returns exactly the names whose flag
\* is true, in the order the names were first registered, changes no
\* registry state, and returns the same list again when no register or
\* enable came between two calls.
C5_Listing ==
    call.op = "get_available_transformations" =>
        /\ ret.names = EnabledAmong(registration_order, registry)
        /\ registry = pre
        /\ listed.again => ret.names = listed.previous

\* C5 witness: a listing made after a name registered later than the
\* built-ins was disabled and enabled again and a built-in name was
\* registered again, and after an earlier listing that is still current.
C5_Witness ==
    /\ call.op = "get_available_transformations"
    /\ ret.names = <<"filter_rows", "uppercase_column", "custom">>
    /\ last_registered["uppercase_column"] = "_map_column"
    /\ listed.again

\* the entry of name: whether it is registered, its func and its flag
Entry(reg, name) ==
    [registered |-> DictHas(reg.transformations, name),
     func       |-> DictGet(reg.transformations, name, NoFunc),
     flagged    |-> DictHas(reg.enabled, name),
     enabled    |-> DictGet(reg.enabled, name, FALSE)]

\* C7: register(name, func, enabled) never fails; afterwards name maps to
\* func with the flag given (True when left out), so that a disabled name
\* registered again without a flag resolves again, and the entries of all
\* other names are as before.
C7_RegisterOverwrites ==
    call.op = "register" =>
        /\ ret.ok
        /\ Entry(registry, call.name) =
               [registered |-> TRUE, func |-> call.func, flagged |-> TRUE,
                enabled |-> Effective(call.has_enabled, call.enabled)]
        /\ ~call.has_enabled =>
               GetTransformation(registry, call.name) =
                   [ok |-> TRUE, func |-> call.func, error |-> NoError]
        /\ \A other \in Names \ {call.name} : Entry(registry, other) = Entry(pre, other)

\* C7 witness: a registered, disabled name is registered again with another
\* func and no flag.
C7_Witness ==
    /\ call.op = "register"
    /\ ~call.has_enabled
    /\ Entry(pre, call.name).registered
    /\ ~Entry(pre, call.name).enabled
    /\ Entry(pre, call.name).func # call.func

\* C8: enable(name, False) followed by enable(name, True) on a registered
\* name leaves get_transformation(name) returning the func it held before
\* the two calls and, when name was enabled before them, leaves the outcome
\* of get_transformation(name) and the list of available names as they were.
C8_ToggleRoundTrip ==
    (toggled.phase = "on" /\ Entry(toggled.reg, toggled.name).registered) =>
        /\ GetTransformation(registry, toggled.name) =
               [ok |-> TRUE, func |-> Entry(toggled.reg, toggled.name).func,
                error |-> NoError]
        /\ Entry(toggled.reg, toggled.name).enabled =>
               /\ GetTransformation(registry, toggled.name) =
                      GetTransformation(toggled.reg, toggled.name)
               /\ GetAvailableTransformations(registry) =
                      GetAvailableTransformations(toggled.reg)

\* C8 witness: the round trip was made on a built-in name that was enabled
\* and is not the last name registered.
C8_Witness ==
    /\ call.op = "enable"
    /\ toggled.phase = "on"
    /\ toggled.name = "map_column"
    /\ Entry(toggled.reg, "map_column").enabled
    /\ Entry(toggled.reg, "custom").enabled

(***************************************************************************)
(* Properties of process.                                                  *)
(***************************************************************************)
\* the table the caller passed, as it was when process began
InputTable == run.heap[run.df]

\* func(t, config) as a function of tables: the table returned
TableAfter(func, t, config) ==
    LET out == Apply(func, <<t>>, 1, config) IN out.heap[out.ref]

\* whether func(t, config) raises
FuncRaises(func, t, config) == ~Apply(func, <<t>>, 1, config).ok

\* the table after steps 1..j, each resolved in reg, composed left to right
RECURSIVE Composed(_, _, _, _)
Composed(reg, t, pipeline_config, j) ==
    IF j = 0 THEN t
    ELSE TableAfter(GetTransformation(reg, pipeline_config[j].type).func,
                    Composed(reg, t, pipeline_config, j - 1),
                    ConfigOf(pipeline_config[j]))

\* step j neither resolves nor runs through on the table steps 1..j-1 give
StepFails(reg, t, pipeline_config, j) ==
    LET looked == GetTransformation(reg, pipeline_config[j].type)
    IN \/ ~looked.ok
       \/ FuncRaises(looked.func, Composed(reg, t, pipeline_config, j - 1),
                     ConfigOf(pipeline_config[j]))

\* the failure step j ends with
FailureOf(reg, t, pipeline_config, j) ==
    LET looked == GetTransformation(reg, pipeline_config[j].type)
    IN IF ~looked.ok THEN looked.error
       ELSE Apply(looked.func, <<Composed(reg, t, pipeline_config, j - 1)>>, 1,
                  ConfigOf(pipeline_config[j])).error

\* the first failing step, counting steps whose predecessors all succeed
FirstFailing(reg, t, pipeline_config) ==
    CHOOSE k \in 1..Len(pipeline_config) :
        /\ \A j \in 1..(k - 1) : ~StepFails(reg, t, pipeline_config, j)
        /\ StepFails(reg, t, pipeline_config, k)

SomeStepFails(reg, t, pipeline_config) ==
    \E k \in 1..Len(pipeline_config) :
        /\ \A j \in 1..(k - 1) : ~StepFails(reg, t, pipeline_config, j)
        /\ StepFails(reg, t, pipeline_config, k)

\* C2: process applies the steps in list order, step i > 1 is given exactly
\* the table step i-1 returned, and the table returned is the left-to-right
\* composition of the resolved functions over the input.
C2_SequentialComposition ==
    call.op = "process" =>
        LET trace == run.out.trace
            steps == run.pipeline_config
        IN /\ Len(trace) <= Len(steps)
           /\ \A i \in 1..Len(trace) :
                 /\ trace[i].name = steps[i].type
                 /\ trace[i].given_table = Composed(pre, InputTable, steps, i - 1)
                 /\ i > 1 => /\ trace[i].given = trace[i - 1].returned
                             /\ trace[i - 1].applied
           /\ run.out.ok =>
                 /\ Len(trace) = Len(steps)
                 /\ \A i \in 1..Len(trace) : trace[i].applied /\ trace[i].returned # 0
                 /\ run.out.heap[run.out.ref] = Composed(pre, InputTable, steps, Len(steps))

\* C2 witness: the second step names a column that the first step created.
C2_Witness ==
    /\ call.op = "process"
    /\ run.pipeline_config = <<RenameName, UpperFullName>>
    /\ InputTable = People
    /\ run.out.ok
    /\ run.out.heap[run.out.ref] =
           [columns |-> <<"full_name", "age">>,
            rows    |-> << <<Text("JOHN"), Num(30)>>, <<Text("JANE"), Num(25)>> >>]

\* C3: when step k is the first step that fails, process makes no lookup
\* and no application after step k, raises the failure of step k and
\* returns no table.
C3_AbortAtFirstFailure ==
    call.op = "process" =>
        LET trace == run.out.trace
            steps == run.pipeline_config
        IN /\ run.out.ok = ~SomeStepFails(pre, InputTable, steps)
           /\ ~run.out.ok =>
                 LET k == FirstFailing(pre, InputTable, steps)
                 IN /\ Len(trace) = k
                    /\ \A i \in 1..(k - 1) : trace[i].applied /\ trace[i].returned # 0
                    /\ trace[k].applied = GetTransformation(pre, steps[k].type).ok
                    /\ trace[k].returned = 0
                    /\ run.out.error = FailureOf(pre, InputTable, steps, k)
                    /\ run.out.ref = 0

\* C3 witness: a step that ran through is followed by a name that does not
\* resolve.
C3_Witness ==
    /\ call.op = "process"
    /\ run.pipeline_config = <<FilterAge, CustomName>>
    /\ ~run.out.ok
    /\ run.out.error = NotFound("custom")
    /\ run.out.trace[1].applied
    /\ run.out.ref = 0

\* C3 witness: the first step fails inside its function and a second step
\* that would resolve is left alone.
C3_WitnessRaises ==
    /\ call.op = "process"
    /\ run.pipeline_config = <<UpperFullName, FilterAge>>
    /\ run.out.error = Raise("ValueError", "Column not found in dataframe", "full_name")
    /\ Len(run.out.trace) = 1

\* C9: process(table, []) makes no lookup, does not fail and returns a
\* table with the columns and rows of the input, in any registry state.
C9_EmptyPipelineIdentity ==
    (call.op = "process" /\ run.pipeline_config = <<>>) =>
        /\ run.out.ok
        /\ run.out.trace = <<>>
        /\ run.out.heap[run.out.ref].columns = InputTable.columns
        /\ run.out.heap[run.out.ref].rows = InputTable.rows

\* C9 witness: the empty pipeline is run while every built-in is disabled.
C9_Witness ==
    /\ call.op = "process"
    /\ run.pipeline_config = <<>>
    /\ GetAvailableTransformations(registry) = <<>>
    /\ InputTable = Sparse

\* C10: process leaves the caller's table as it was, whether it returns or
\* fails, and every function applied returns an object other than the one
\* it was given and leaves the one it was given as it was.
C10_InputNotMutated ==
    call.op = "process" =>
        /\ run.out.heap[run.df] = InputTable
        /\ \A i \in 1..Len(run.out.trace) :
              LET e == run.out.trace[i]
              IN /\ run.out.heap[e.given] = e.given_table
                 /\ (e.applied /\ e.returned # 0) =>
                        /\ e.returned # e.given
                        /\ e.returned # run.df

\* C10 witness: uppercase_column's function ran through on the first step
\* and the second step failed.
C10_Witness ==
    /\ call.op = "process"
    /\ ~run.out.ok
    /\ Len(run.out.trace) = 2
    /\ run.out.trace[1].func = "_uppercase_column"
    /\ run.out.trace[1].applied
    /\ run.out.trace[2].applied

(***************************************************************************)
(* Properties of the application.                                          *)
(***************************************************************************)
\* the transformation names the steps of the request's pipeline carry
RequestedNames ==
    {request.pipeline.steps[i].type.s : i \in 1..Len(request.pipeline.steps)}
    \cup {request.pipeline.steps[i].name.s : i \in 1..Len(request.pipeline.steps)}

Listed(name) == \E i \in 1..Len(response.names) : response.names[i] = name

\* C4: once a toggle request has disabled a registered name, and until a
\* toggle request enables it again, GET /transformations does not list the
\* name and no POST /transform whose pipeline has a step of that name is
\* processed: it is answered 500.
C4_SwitchedOffForEveryEndpoint ==
    /\ request.endpoint = "transformations" =>
           \A name \in switched_off : ~Listed(name)
    /\ (/\ request.endpoint = "transform"
        /\ RequestedNames \cap switched_off # {}
        /\ response.status # 400) =>
           response.status = 500

\* what holds of the listing alone: it leaves out the names switched off
C4_ListingLeavesOutSwitchedOff ==
    request.endpoint = "transformations" =>
        \A name \in switched_off : ~Listed(name)

\* C6: a toggle request for a name that was never registered is answered
\* 200 with success true, and enable leaves the registry as it was: no
\* entry for the name, get_transformation(name) still fails NotFound.
C6_ToggleUnknownNoOp ==
    (/\ request.endpoint = "toggle"
     /\ request.body # "none"
     /\ ~DictHas(before.transformations, request.name)) =>
        /\ response.status = 200
        /\ response.body = "success"
        /\ response.success
        /\ transformations_registry = before
        /\ ~DictHas(transformations_registry.transformations, request.name)
        /\ ~DictHas(transformations_registry.enabled, request.name)
        /\ GetTransformation(transformations_registry, request.name) =
               [ok |-> FALSE, func |-> NoFunc, error |-> NotFound(request.name)]

\* C6 witness: the request of test_toggle_invalid_transformation, made
\* while a built-in is disabled.
C6_Witness ==
    /\ request.endpoint = "toggle"
    /\ request.name = "invalid_transform"
    /\ request.body = "enabled_true"
    /\ response.success
    /\ "filter_rows" \in switched_off

\* the same of the method itself, in every state the client of Spec reaches
C6_EnableUnknownNoOp ==
    (call.op = "enable" /\ ~DictHas(pre.transformations, call.name)) =>
        /\ registry = pre
        /\ ret.ok
        /\ GetTransformation(registry, call.name) =
               [ok |-> FALSE, func |-> NoFunc, error |-> NotFound(call.name)]

C11_WitnessTable ==
    /\ call.op = "process"
    /\ run.earlier.valid
    /\ ~run.earlier.changed
    /\ run.pipeline_config = <<RenameName, UpperFullName>>
    /\ InputTable = Sparse
    /\ run.out.ok

(***************************************************************************)
(* Properties of POST /transform.                                          *)
(***************************************************************************)
\* a step as the claim wants it: an object with exactly the keys type, a
\* string, and config, an object
ValidStep(step) ==
    /\ step.is_dict
    /\ step.keys = {"type", "config"}
    /\ step.type.is_str
    /\ step.config.is_dict

ValidPipeline(steps) ==
    /\ Len(steps) >= 1
    /\ Len(steps) <= 10
    /\ \A i \in 1..Len(steps) : ValidStep(steps[i])

\* the pipeline field holds JSON that is no list and no {"steps": ...}
NotAList ==
    /\ request.pipeline.present
    /\ \/ request.pipeline.kind = "other"
       \/ request.pipeline.kind = "dict" /\ ~request.pipeline.has_steps

FlatRequest == request.pipeline.present /\ request.pipeline.kind = "list"

WrappedRequest ==
    /\ request.pipeline.present
    /\ request.pipeline.kind = "dict"
    /\ request.pipeline.has_steps

\* a wrapped step that the translation or the validation after it refuses
WrappedStepRefused(step) ==
    \/ ~step.is_dict
    \/ "name" \notin step.keys
    \/ ~step.name.is_str
    \/ "params" \in step.keys /\ ~step.params.is_dict

\* C12: process is called only with a pipeline_config of 1 to 10 steps, each
\* an object with exactly the keys type (a string) and config (an object);
\* a pipeline that is not a list, is empty, has more than 10 steps or has a
\* step with a missing, mistyped or extra key is answered 400 and process
\* is not called. (For the wrapped form the steps meant are those the
\* translation yields.)
C12_OnlyValidatedPipelines ==
    request.endpoint = "transform" =>
        /\ response.invoked => ValidPipeline(response.given)
        /\ (FlatRequest /\ ~ValidPipeline(request.pipeline.steps)) =>
               response.status = 400 /\ ~response.invoked
        /\ NotAList => response.status = 400 /\ ~response.invoked
        /\ (/\ WrappedRequest
            /\ \/ ~request.pipeline.steps_is_list
               \/ Len(request.pipeline.steps) = 0
               \/ Len(request.pipeline.steps) > 10
               \/ \E i \in 1..Len(request.pipeline.steps) :
                      WrappedStepRefused(request.pipeline.steps[i])) =>
               response.status = 400 /\ ~response.invoked

\* a file that passes every check of the handler and parses to table
GoodFile(table) == File(TRUE, "test.csv", 44, TRUE, FALSE, "ok", table)

\* C12 witness: with a good file, a second step with an extra key is
\* answered 400 for step 2 although the first step is runnable.
C12_Witness ==
    /\ request.endpoint = "transform"
    /\ request.file = GoodFile(People)
    /\ request.pipeline = PipelineField(TRUE, "list", FALSE, FALSE,
                                        <<Flat(FilterAge), FlatExtraKey>>)
    /\ response.status = 400
    /\ response.step = 2
    /\ ~response.invoked

\* C12 witness: process is called with a validated pipeline.
C12_WitnessInvoked ==
    /\ request.endpoint = "transform"
    /\ response.invoked
    /\ Len(response.given) = 2
    /\ response.status = 200

\* the flat step carrying the names and parameters of a wrapped step: name
\* as type, params as config, every other key as it is
FlatForm(step) ==
    IF ~step.is_dict THEN step
    ELSE JStep(TRUE,
               {IF k = "name" THEN "type" ELSE IF k = "params" THEN "config" ELSE k :
                    k \in step.keys},
               step.name, step.params, NoText, NoObj)

\* the request with its wrapped pipeline in the flat form
FlatCounterpart ==
    [request EXCEPT !.pipeline =
        PipelineField(TRUE, "list", FALSE, FALSE,
                      [i \in 1..Len(request.pipeline.steps) |->
                          FlatForm(request.pipeline.steps[i])])]

\* C13 as stated: every wrapped pipeline gets the response its flat form
\* gets, steps that omit params or carry extra keys included.
C13_WrappedSameAsFlat ==
    (/\ request.endpoint = "transform"
     /\ WrappedRequest
     /\ request.pipeline.steps_is_list) =>
        response = TransformPost(transform_registry, FlatCounterpart)

\* C13: a wrapped pipeline whose steps are objects with exactly the keys
\* name and params gets the response its flat form gets.
C13_WrappedExactKeysSameAsFlat ==
    (/\ request.endpoint = "transform"
     /\ WrappedRequest
     /\ request.pipeline.steps_is_list
     /\ \A i \in 1..Len(request.pipeline.steps) :
            /\ request.pipeline.steps[i].is_dict
            /\ request.pipeline.steps[i].keys = {"name", "params"}) =>
        response = TransformPost(transform_registry, FlatCounterpart)

\* C13 witness: a wrapped pipeline of two steps is run on a good file.
C13_Witness ==
    /\ request.endpoint = "transform"
    /\ request.file = GoodFile(People)
    /\ request.pipeline = PipelineField(TRUE, "dict", TRUE, TRUE,
                                        <<Wrapped(RenameName), Wrapped(UpperFullName)>>)
    /\ response.status = 200
    /\ response.data.columns = <<"full_name", "age">>

\* C13 witness: a wrapped step whose name is no string is refused as its
\* flat form is.
C13_WitnessRefused ==
    /\ request.endpoint = "transform"
    /\ request.file = GoodFile(People)
    /\ request.pipeline = PipelineField(TRUE, "dict", TRUE, TRUE, <<WrappedNameNotStr>>)
    /\ response.status = 400
    /\ response.step = 1

\* the pipeline_config the handler passed to process, as process reads it
GivenSteps == [i \in 1..Len(response.given) |-> StepOf(response.given[i])]

\* 200 with the shapes and the data of the table all steps give
ResultResponse ==
    /\ response.status = 200
    /\ response.body = "result"
    /\ response.error = NoError
    /\ response.invoked
    /\ ~SomeStepFails(transform_registry, request.file.table, GivenSteps)
    /\ response.data = Composed(transform_registry, request.file.table, GivenSteps,
                                Len(GivenSteps))
    /\ response.original_shape = Shape(request.file.table)
    /\ response.transformed_shape = Shape(response.data)

\* an error response of the given status: {error} and nothing of a table
OnlyError(status) ==
    /\ response.status = status
    /\ response.body = "error"
    /\ response.error # NoError
    /\ response.data = NoTable
    /\ response.original_shape = <<0, 0>>
    /\ response.transformed_shape = <<0, 0>>

\* C14 as stated: every POST /transform response is 200 with the shapes and
\* the data of the fully transformed table, or 400 with only {error} for
\* input refused before processing, or 500 with only {error} for a failure
\* of processing, that is of a step of the pipeline.
C14_ResponseKinds ==
    request.endpoint = "transform" =>
        \/ ResultResponse
        \/ OnlyError(400) /\ ~response.invoked
        \/ /\ OnlyError(500)
           /\ response.invoked
           /\ SomeStepFails(transform_registry, request.file.table, GivenSteps)
           /\ response.error = FailureOf(transform_registry, request.file.table, GivenSteps,
                                         FirstFailing(transform_registry, request.file.table,
                                                      GivenSteps))

\* what holds of every POST /transform response: it has one of the three
\* shapes, and data only of the table all steps give
C14_ShapesAndNoPartialData ==
    request.endpoint = "transform" =>
        \/ ResultResponse
        \/ OnlyError(400) /\ ~response.invoked
        \/ OnlyError(500)

\* the uploaded file passes the checks on name, type and size and holds no
\* data: zero bytes, nothing to parse, or a header line and no rows
EmptyCsv ==
    /\ request.file.present
    /\ EndsWithCsv(request.file.filename)
    /\ request.file.size <= MAX_FILE_SIZE
    /\ request.file.utf8
    /\ ~request.file.suspicious
    /\ \/ request.file.size = 0
       \/ request.file.parse = "EmptyDataError"
       \/ request.file.parse = "ok" /\ Len(request.file.table.rows) = 0

\* C15 as stated: a POST /transform request with an empty CSV file and a
\* pipeline field is answered 500 with an error.
C15_EmptyCsvIsProcessingError ==
    (/\ request.endpoint = "transform"
     /\ EmptyCsv
     /\ request.pipeline.present
     /\ request.pipeline.kind # "empty") =>
        response.status = 500 /\ response.body = "error"

\* what the handler does with the request of test_transform_empty_csv: 400
C15_EmptyFileIs400 ==
    (/\ request.endpoint = "transform"
     /\ EmptyCsv
     /\ request.file.size = 0
     /\ request.pipeline.present
     /\ request.pipeline.kind # "empty") =>
        response = BadRequest("Empty file provided")

(***************************************************************************)
(* Properties of the registry under threads.                               *)
(***************************************************************************)
\* C16 as stated: a get_transformation(name) that runs while other threads
\* register or enable, none of them ever with enabled=False for name, fails
\* NotFound or returns a func, it does not fail Disabled; and no
\* get_transformation finds a name with a func and no enabled flag.
C16_RegisterAtomicForReaders ==
    \A t \in Threads :
        /\ (/\ threads[t].op = "get_transformation"
            /\ threads[t].pc = "done"
            /\ threads[t].name \notin ever_disabled) =>
               \/ threads[t].error = NotFound(threads[t].name)
               \/ threads[t].ok /\ threads[t].returned # NoFunc
        /\ threads[t].observed # "func_without_flag"

\* what holds under threads: while no register call is between its two
\* assignments, every name with a func has a flag
C16_FlagMissingOnlyInsideRegister ==
    (\A t \in Threads : ~(threads[t].op = "register" /\ threads[t].pc = "set_flag")) =>
        \A name \in Names :
            DictHas(shared.transformations, name) => DictHas(shared.enabled, name)

(***************************************************************************)
(* Properties of the set of registered names.                              *)
(***************************************************************************)
Registered(reg, name) == DictHas(reg.transformations, name)

BuiltinSet == {BuiltinNames[i] : i \in 1..Len(BuiltinNames)}

\* C17: the registry as constructed holds the three built-ins, all enabled;
\* no call removes a name, so every name ever registered stays registered,
\* the built-ins among them, and neither get_transformation nor process
\* fails NotFound on a built-in name.
C17_NamesNeverRemoved ==
    /\ DictKeys(NewRegistry.transformations) = BuiltinNames
    /\ GetAvailableTransformations(NewRegistry) = BuiltinNames
    /\ \A i \in 1..Len(registration_order) : Registered(registry, registration_order[i])
    /\ \A name \in BuiltinSet : Registered(registry, name)
    /\ call # Idle => \A name \in Names : Registered(pre, name) => Registered(registry, name)
    /\ \A name \in BuiltinSet :
          /\ GetTransformation(registry, name).error # NotFound(name)
          /\ call.op = "get_transformation" => ret.error # NotFound(name)
          /\ call.op = "process" => run.out.error # NotFound(name)

\* C17 witness: after a new name was registered and a built-in disabled,
\* get_transformation on the built-in fails Disabled, not NotFound.
C17_Witness ==
    /\ call.op = "get_transformation"
    /\ call.name = "map_column"
    /\ ret.error = Disabled("map_column")
    /\ Registered(registry, "custom")
    /\ Len(registration_order) = 4

(***************************************************************************)
(* Properties of the built-in functions.                                   *)
(***************************************************************************)
\* the table the function was given and the one it returned
GivenTable == applied.heap[applied.df]

ResultTable == applied.out.heap[applied.out.ref]

\* the order of two values of one type: integers by value, texts by code
\* points
OrderKey(v) == IF v.k = "int" THEN v.n ELSE TextRank(v.s)

\* a <op> b for two values of one type
Holds(operator, a, b) ==
    CASE operator = "==" -> a = b
      [] operator = "!=" -> a # b
      [] operator = ">"  -> OrderKey(a) > OrderKey(b)
      [] operator = "<"  -> OrderKey(a) < OrderKey(b)
      [] operator = ">=" -> OrderKey(a) >= OrderKey(b)
      [] operator = "<=" -> OrderKey(a) <= OrderKey(b)

\* the cells of a column
ColumnCells(t, column) ==
    {t.rows[r][ColumnIndex(t, column)] : r \in 1..Len(t.rows)}

\* filter_rows was given column and value, and column is a column of the
\* table whose cells are not null and of the type of value
SameTypedColumn ==
    /\ applied.func = "_filter_rows"
    /\ {"column", "value"} \subseteq applied.config.keys
    /\ HasColumn(GivenTable, applied.config.column)
    /\ \A cell \in ColumnCells(GivenTable, applied.config.column) :
           cell.k = applied.config.value.k

\* C18: over a column of non-null values of the type of value, filter_rows
\* with one of ==, !=, >, <, >=, <= returns the rows for which
\* row[column] <op> value holds, in their order, under the same columns; a
\* config without operator gives what operator == gives; an operator
\* outside the seven fails with ValueError "Unsupported operator" and
\* returns no table.
C18_FilterRowsComparisons ==
    /\ (/\ SameTypedColumn
        /\ "operator" \in applied.config.keys
        /\ applied.config.operator \in {"==", "!=", ">", "<", ">=", "<="}) =>
           /\ applied.out.ok
           /\ ResultTable.columns = GivenTable.columns
           /\ ResultTable.rows =
                  SelectSeq(GivenTable.rows,
                            LAMBDA row : Holds(applied.config.operator,
                                               row[ColumnIndex(GivenTable,
                                                               applied.config.column)],
                                               applied.config.value))
    /\ (/\ applied.func = "_filter_rows"
        /\ {"column", "value"} \subseteq applied.config.keys
        /\ "operator" \notin applied.config.keys) =>
           applied.out =
               FilterRows(applied.heap, applied.df,
                          [applied.config EXCEPT !.keys = @ \cup {"operator"},
                                                 !.operator = "=="])
    /\ (/\ applied.func = "_filter_rows"
        /\ {"column", "operator", "value"} \subseteq applied.config.keys
        /\ applied.config.operator \notin
               {"==", "!=", ">", "<", ">=", "<=", "contains"}) =>
           /\ ~applied.out.ok
           /\ applied.out.error =
                  Raise("ValueError", "Unsupported operator", applied.config.operator)
           /\ applied.out.ref = 0

\* C18 witness: the rows with age >= 30, the first and the third, are
\* returned in their order.
C18_Witness ==
    /\ applied.func = "_filter_rows"
    /\ GivenTable = AgeFirst
    /\ applied.config = Config({"column", "operator", "value"}, "age", ">=", Num(30), "", "")
    /\ applied.out.ok
    /\ ResultTable.rows = << <<Num(30), Text("John")>>, <<Num(30), Text("Jane")>> >>

\* C18 witness: a config without operator keeps the rows equal to value.
C18_WitnessDefault ==
    /\ applied.func = "_filter_rows"
    /\ GivenTable = People
    /\ applied.config = Config({"column", "value"}, "name", "", Text("John"), "", "")
    /\ applied.out.ok
    /\ ResultTable.rows = << <<Text("John"), Num(30)>> >>

\* C18 witness: an operator the source does not have.
C18_WitnessUnsupported ==
    /\ applied.func = "_filter_rows"
    /\ applied.config.operator = "~="
    /\ applied.out.error = Raise("ValueError", "Unsupported operator", "~=")

\* no column name occurs twice
DistinctColumns(t) ==
    \A i, j \in 1..Len(t.columns) : t.columns[i] = t.columns[j] => i = j

\* the cells of a column, row by row; of the first column of that name
ColumnValues(t, column) ==
    [r \in 1..Len(t.rows) |-> t.rows[r][ColumnIndex(t, column)]]

\* map_column was asked to rename a column to the name of another column
\* of the table
Collides ==
    /\ applied.func = "_map_column"
    /\ {"old_name", "new_name"} \subseteq applied.config.keys
    /\ HasColumn(GivenTable, applied.config.old_name)
    /\ HasColumn(GivenTable, applied.config.new_name)
    /\ applied.config.new_name # applied.config.old_name

\* C19: when new_name is another column of the table, map_column
\* overwrites that column: the result has pairwise distinct column names,
\* one column fewer than the input, and its column new_name holds the
\* values old_name held; and every table a built-in function returns has
\* pairwise distinct column names.
C19_MapColumnCollisionOverwrites ==
    /\ Collides =>
           /\ applied.out.ok
           /\ DistinctColumns(ResultTable)
           /\ Len(ResultTable.columns) = Len(GivenTable.columns) - 1
           /\ ColumnValues(ResultTable, applied.config.new_name) =
                  ColumnValues(GivenTable, applied.config.old_name)
    /\ (applied.func # "" /\ applied.out.ok) => DistinctColumns(ResultTable)

\* What the source does on a collision: the label is replaced where it
\* stands, so the result has as many columns as the input, two of them named
\* new_name, and the rows are the input's.
C19_CollisionDuplicatesLabel ==
    Collides =>
        /\ applied.out.ok
        /\ Len(ResultTable.columns) = Len(GivenTable.columns)
        /\ Cardinality({i \in 1..Len(ResultTable.columns) :
                           ResultTable.columns[i] = applied.config.new_name}) = 2
        /\ ResultTable.rows = GivenTable.rows

\* Without a collision the columns of a returned table are pairwise
\* distinct.
C19_DistinctWithoutCollision ==
    (applied.func # "" /\ applied.out.ok /\ ~Collides) => DistinctColumns(ResultTable)

\* filter_rows was given operator contains, a column of the table and a
\* value
ContainsCall ==
    /\ applied.func = "_filter_rows"
    /\ {"column", "operator", "value"} \subseteq applied.config.keys
    /\ applied.config.operator = "contains"
    /\ HasColumn(GivenTable, applied.config.column)

\* the rows whose entry in column is not null and has the text of value as
\* a substring
RowsWithSubstring ==
    SelectSeq(GivenTable.rows,
              LAMBDA row :
                  LET cell == row[ColumnIndex(GivenTable, applied.config.column)]
                  IN /\ cell # Null
                     /\ Substring(ToText(applied.config.value), ToText(cell)))

\* C20: filter_rows with operator contains does not fail, excludes every
\* row whose entry in column is null, and keeps every other row exactly when
\* the text of value is a substring of the text of the entry.
C20_ContainsIsNullSafeSubstring ==
    ContainsCall =>
        /\ applied.out.ok
        /\ ResultTable.rows = RowsWithSubstring

\* the text of value has no character that the pattern syntax gives a
\* meaning to
PlainValue == ToText(applied.config.value) \notin {"J.hn", "("}

\* What the source does for a value without pattern characters over a
\* column without null entries: the substring test of C20.
C20_ContainsOnPlainTextWithoutNulls ==
    (/\ ContainsCall
     /\ PlainValue
     /\ Null \notin ColumnCells(GivenTable, applied.config.column)) =>
        /\ applied.out.ok
        /\ ResultTable.rows = RowsWithSubstring

\* the ways the source departs from C20: the value is compiled as a
\* pattern and the compilation fails
C20_BadPatternFails ==
    /\ ContainsCall
    /\ applied.config.value = Text("(")
    /\ ~applied.out.ok
    /\ applied.out.error.type = "re.error"

\* the value is matched as a pattern: J.hn keeps the row of John, of which
\* it is not a substring
C20_PatternMatches ==
    /\ ContainsCall
    /\ GivenTable = People
    /\ applied.config.column = "name"
    /\ applied.config.value = Text("J.hn")
    /\ applied.out.ok
    /\ ResultTable.rows = << <<Text("John"), Num(30)>> >>

\* a null entry is turned into the text nan before the test, and an is a
\* substring of it
C20_NullEntryKept ==
    /\ ContainsCall
    /\ applied.config.value = Text("an")
    /\ applied.out.ok
    /\ \E r \in 1..Len(ResultTable.rows) :
           ResultTable.rows[r][ColumnIndex(GivenTable, applied.config.column)] = Null

\* uppercase_column was given a column
UppercaseCall ==
    /\ applied.func = "_uppercase_column"
    /\ "column" \in applied.config.keys

\* the result has the columns and as many rows as the input, every entry
\* outside column is the input's, and every non-null entry of column is the
\* upper-cased text of the input's
UppercasedButNulls ==
    LET c == ColumnIndex(GivenTable, applied.config.column)
    IN /\ applied.out.ok
       /\ ResultTable.columns = GivenTable.columns
       /\ Len(ResultTable.rows) = Len(GivenTable.rows)
       /\ \A r \in 1..Len(GivenTable.rows) :
              /\ Len(ResultTable.rows[r]) = Len(GivenTable.rows[r])
              /\ \A i \in 1..Len(GivenTable.columns) :
                     LET cell == GivenTable.rows[r][i]
                     IN /\ i # c => ResultTable.rows[r][i] = cell
                        /\ (i = c /\ cell # Null) =>
                               ResultTable.rows[r][i] = Text(Upper(ToText(cell)))

\* the null entries of column, as the result has them
NullsInResult ==
    LET c == ColumnIndex(GivenTable, applied.config.column)
    IN {ResultTable.rows[r][c] : r \in {q \in 1..Len(GivenTable.rows) :
                                            GivenTable.rows[q][c] = Null}}

\* the call fails because column is not a column of the input
ColumnNotFound ==
    /\ ~applied.out.ok
    /\ applied.out.ref = 0
    /\ applied.out.error =
           Raise("ValueError", "Column not found in dataframe", applied.config.column)

\* C21: uppercase_column replaces every non-null entry of column by the
\* upper-cased text of the entry, leaves every null entry of column null,
\* leaves the other columns, the column order and the row order as they
\* are, and fails with ColumnNotFound when column is not a column of the
\* input.
C21_UppercaseColumnKeepsNulls ==
    UppercaseCall =>
        IF HasColumn(GivenTable, applied.config.column)
        THEN UppercasedButNulls /\ NullsInResult \subseteq {Null}
        ELSE ColumnNotFound

\* What the source does on every pandas: C21 but for the null entries, which
\* stay null or become the text NAN.
C21_UppercaseColumnButNulls ==
    UppercaseCall =>
        IF HasColumn(GivenTable, applied.config.column)
        THEN UppercasedButNulls /\ NullsInResult \subseteq {Null, Text("NAN")}
        ELSE ColumnNotFound

\* Where astype(str) keeps a missing value missing, the source does what C21
\* says.
C21_HoldsWhereAstypeKeepsNull ==
    (UppercaseCall /\ applied.astype_keeps_null) =>
        IF HasColumn(GivenTable, applied.config.column)
        THEN UppercasedButNulls /\ NullsInResult \subseteq {Null}
        ELSE ColumnNotFound

\* the departure from C21: the null name of the first row has become the
\* text NAN
C21_NullBecomesText ==
    /\ UppercaseCall
    /\ GivenTable = Sparse
    /\ applied.config.column = "name"
    /\ ~applied.astype_keeps_null
    /\ applied.out.ok
    /\ ResultTable.rows = << <<Text("NAN"), Num(45)>>, <<Text("JOHN"), Num(25)>> >>

\* a number is converted to text before it is upper-cased
C21_NumberUppercased ==
    /\ UppercaseCall
    /\ GivenTable = People
    /\ applied.config.column = "age"
    /\ ResultTable.rows = << <<Text("John"), Text("30")>>, <<Text("Jane"), Text("25")>> >>

\* a column the input does not have is refused
C21_MissingColumnRefused ==
    /\ UppercaseCall
    /\ applied.config.column = "salary"
    /\ ColumnNotFound

====
